---- MODULE Spec2Model ----
(***************************************************************************)
(* A model of WebAutomator's command interpreter (src/src/main.rs) over    *)
(* the command vocabulary of yaml2commands (src/yaml2commands/src/lib.rs). *)
(*                                                                         *)
(* One state of the model is one point between two calls of               *)
(* do_command_detail: an action performs one call (with every browser      *)
(* request that call makes, each answered nondeterministically by the      *)
(* WebDriver session) and then all of the control flow that follows it in   *)
(* run_command, in the Loop arm and in main, up to the next call.          *)
(***************************************************************************)
EXTENDS Integers, Sequences, FiniteSets, TLC

(* ------------------------------ bounds -------------------------------- *)
\* Scripts over the core vocabulary have at most this many WebCommand nodes.
MaxNodes == 3
\* Recursive chains over the whole vocabulary descend at most this deep.
MaxChain == 2
\* No step starts once more than this many Loop passes have been retried.
MaxRetries == 2
\* No click-until loop clicks once this many clicks of such loops were made.
MaxClicks == 2
\* The number of window handles client.windows() returns.
NumWindows == 2

(* ------------------------- Option<T> as a sequence --------------------- *)
None == <<>>
Some(x) == <<x>>
IsSome(o) == o # <<>>
Unwrap(o) == o[1]

(* ------------------------------ commands ------------------------------- *)
\* The payload of a variant that holds values: the String of GoTo and Input
\* (text), the f64 of WaitForSeconds (number, or nan: f64::NAN), the usize of
\* ChangeWindow (number), the two u32 of ChangeWindowSize (width, height).
Payload(text, number, nan, width, height) ==
    [text |-> text, number |-> number, nan |-> nan, width |-> width, height |-> height]
NoPayload == Payload("", 0, FALSE, 0, 0)
Text(str) == Payload(str, 0, FALSE, 0, 0)
Number(n) == Payload("", n, FALSE, 0, 0)
NaN == Payload("", 0, TRUE, 0, 0)
Size(w, h) == Payload("", 0, FALSE, w, h)

\* struct WebCommand { selector, command_type }; the variant's payload is
\* arg (its values), child (Recursive's box) or body (Loop's list).
WebCommand(t, s, a, c, b) ==
    [command_type |-> t, selector |-> s, arg |-> a, child |-> c, body |-> b]

Leaf(t, s) == WebCommand(t, s, NoPayload, None, <<>>)
Recursive(s, c) == WebCommand("Recursive", s, NoPayload, Some(c), <<>>)
Loop(b) == WebCommand("Loop", None, NoPayload, None, b)
\* ChangeWindow(i)
ChangeWindow(i) == WebCommand("ChangeWindow", None, Number(i), None, <<>>)

\* The variants do_command_detail handles before its catch-all arm.
NoElementTypes ==
    {"GoTo", "Loop", "ChangeWindowSize", "ScrollIntoView", "WaitForSeconds",
     "ChangeWindow", "LeaveFrame", "PrintSource", "Wait"}
\* The variants of the catch-all arm, which first looks the element up.
ElementTypes ==
    {"Clear", "EnterFrame", "ClickUntilNavigation", "ClickUntilDomChanged",
     "Click", "Input", "Recursive", "Check"}
ClickUntilTypes == {"ClickUntilNavigation", "ClickUntilDomChanged"}

Selectors == {None, Some("a")}
ParentSelectors == {None, Some("div")}

\* Every variant without a nested command, with and without a selector where
\* the selector is read, and with the last index of the window list and the
\* first one outside it.
Leaves ==
    {Leaf(t, s) : t \in (ElementTypes \ {"Recursive"})
                       \cup {"ScrollIntoView", "WaitForSeconds", "Wait"},
                  s \in Selectors}
    \cup {Leaf(t, None) : t \in {"GoTo", "ChangeWindowSize", "LeaveFrame", "PrintSource"}}
    \cup {ChangeWindow(i) : i \in {NumWindows - 1, NumWindows}}

\* The vocabulary of the larger scripts: a step that can only succeed, a step
\* that can only fail (for want of a selector), and a step that can succeed,
\* time out or fail with any error of the session.
CoreLeaves ==
    {Leaf("WaitForSeconds", None), Leaf("Check", None), Leaf("WaitForSeconds", Some("a"))}

RECURSIVE CmdsOfSize(_, _), ListsOfSize(_, _)
\* The commands over leaves A that have exactly n WebCommand nodes.
CmdsOfSize(A, n) ==
    IF n = 0 THEN {}
    ELSE IF n = 1 THEN A \cup {Loop(<<>>)}
    ELSE {Recursive(s, c) : s \in ParentSelectors, c \in CmdsOfSize(A, n - 1)}
         \cup {Loop(b) : b \in ListsOfSize(A, n - 1)}
\* The command lists over leaves A that have exactly n WebCommand nodes in all.
ListsOfSize(A, n) ==
    IF n = 0 THEN {<<>>}
    ELSE UNION {{<<c>> \o r : c \in CmdsOfSize(A, k), r \in ListsOfSize(A, n - k)}
                : k \in 1..n}

RECURSIVE ChainsOfDepth(_)
\* Recursive(..Recursive(leaf)) with exactly d Recursive nodes.
ChainsOfDepth(d) ==
    IF d = 0 THEN Leaves
    ELSE {Recursive(s, c) : s \in ParentSelectors, c \in ChainsOfDepth(d - 1)}

\* The leaves that change the session: the frame or the window.
EffectLeaves ==
    {Leaf("EnterFrame", Some("a")), Leaf("LeaveFrame", None), ChangeWindow(NumWindows - 1)}

\* Every leaf alone, as the only command of a Loop, and before and after a
\* step that can succeed; every leaf that changes the session as the first
\* command of a Loop, before a step that can fail and before one that always
\* fails.
Singles ==
    {<<c>> : c \in Leaves}
    \cup {<<Loop(<<c>>)>> : c \in Leaves}
    \cup {<<Loop(<<c, d>>)>> :
             c \in EffectLeaves,
             d \in {Leaf("Check", Some("a")), ChangeWindow(NumWindows)}}
    \cup {<<Leaf("Check", Some("a")), c>> : c \in Leaves}
    \cup {<<c, Leaf("Check", Some("a"))>> : c \in Leaves}

\* The parsed input files the model runs.
Scripts ==
    Singles
    \cup UNION {ListsOfSize(CoreLeaves, n) : n \in 0..MaxNodes}
    \cup UNION {{<<c>> : c \in ChainsOfDepth(d)} : d \in 1..MaxChain}

(* ------------------------------- errors -------------------------------- *)
\* An anyhow::Error, by what downcast_ref::<CmdError>() and the pattern
\* CmdError::Standard(e) see of it: class is the CmdError variant ("Standard",
\* or another one), or "anyhow" for an error made by anyhow!/bail!, or
\* "Elapsed" for tokio's timeout error; error is e.error or the message.
Error(c, e) == [class |-> c, error |-> e]
Standard(status) == Error("Standard", status)
NoError == Error("", "")
NeedsSelector == Error("anyhow", "A command needs a selector string")
NoWindow == Error("anyhow", "Couldn't find the window")
LoopFailed == Error("anyhow", "A loop has failed")
Elapsed == Error("Elapsed", "deadline has elapsed")

\* What a request to the session can fail with.
SessionErrors ==
    {Standard("NoSuchWindow"), Standard("InvalidSessionId"),
     Standard("UnknownError"), Error("NoSuchElement", "no such element")}

\* Result<Option<Element>>
Ok(e) == [ok |-> TRUE, elem |-> e, err |-> NoError]
Err(x) == [ok |-> FALSE, elem |-> None, err |-> x]

\* Mutation: the test forgets InvalidSessionId.
IsFatalNoSuchWindowOnly(e) ==
    /\ e.class = "Standard"
    /\ e.error \in {"NoSuchWindow"}

\* Mutation: an error that is no CmdError bails too.
IsFatalOrNotCmdError(e) ==
    \/ e.class \in {"anyhow", "Elapsed"}
    \/ e.class = "Standard" /\ e.error \in {"NoSuchWindow", "InvalidSessionId"}

\* Mutation: every CmdError::Standard bails, whatever its status.
IsFatalAnyStandard(e) == e.class = "Standard"

\* The Loop arm's test of a failed pass: bail (TRUE) or log and retry (FALSE).
IsFatal(e) ==
    /\ e.class = "Standard"
    /\ e.error \in {"NoSuchWindow", "InvalidSessionId"}

(* ----------------------------- the session ----------------------------- *)
\* The element a lookup of selector sel answers, within a scope (None: the
\* document root).
Element(sel, scope) == [selector |-> sel, within |-> scope]

\* One request: op, its selector and search scope (lookups only), the error it
\* answered or NoError, and the value it answered (snapshots only).
Request(op, sel, scope, out, v) ==
    [op |-> op, selector |-> sel, within |-> scope, out |-> out, value |-> v]
Call(op, sel, scope, out) == Request(op, sel, scope, out, "")
Plain(op, out) == Call(op, None, None, out)
Read(op, v) == Request(op, None, None, NoError, v)

\* What the interpreter changes of the session: the active window (an index
\* into client.windows()) and the depth of the active frame.
InitSession == [window |-> 0, frames |-> 0]
\* What current_url() and source() can answer: the page is the browser's, and
\* a click may or may not have changed it.
Pages == {"before", "after"}

(* ------------------------- do_command_detail --------------------------- *)
\* An arm's outcome: the requests it made, what it returns, the session after.
Outcome(calls, res, s) == [calls |-> calls, res |-> res, session |-> s]

\* An arm of one request: it fails (the arm returns the error by `?`, the
\* session as it was) or succeeds, the session then `after`, the arm returning res.
Single(op, res, s, after) ==
    {Outcome(<<Plain(op, e)>>, Err(e), s) : e \in SessionErrors}
    \cup {Outcome(<<Plain(op, NoError)>>, res, after)}

GoToArm(elem, command, s) ==
    Single("goto", Ok(elem), s, s)

ChangeWindowSizeArm(elem, command, s) ==
    Single("set_window_size", Ok(elem), s, s)

ScrollIntoViewArm(elem, command, s) ==
    IF ~IsSome(command.selector)
    THEN {Outcome(<<>>, Err(NeedsSelector), s)}
    ELSE Single("execute", Ok(elem), s, s)

\* Mutation: the arm requires the selector, as the Wait arm does.
WaitForSecondsRequiresSelector(elem, command, s) ==
    IF ~IsSome(command.selector)
    THEN {Outcome(<<>>, Err(NeedsSelector), s)}
    ELSE {Outcome(<<Call("wait_for_find", command.selector, None, e)>>, Err(e), s)
             : e \in SessionErrors \cup {Elapsed}}
         \cup {Outcome(<<Call("wait_for_find", command.selector, None, NoError)>>,
                       Ok(elem), s)}

WaitForSecondsArm(elem, command, s) ==
    IF IsSome(command.selector)
    THEN {Outcome(<<Call("wait_for_find", command.selector, None, e)>>, Err(e), s)
             : e \in SessionErrors \cup {Elapsed}}
         \cup {Outcome(<<Call("wait_for_find", command.selector, None, NoError)>>,
                       Ok(elem), s)}
    ELSE {Outcome(<<>>, Ok(elem), s)}

\* Mutation: the index one past the last window handle is taken as a handle.
ChangeWindowArmOffByOne(elem, command, s) ==
    {Outcome(<<Plain("windows", e)>>, Err(e), s) : e \in SessionErrors}
    \cup IF command.arg.number <= NumWindows
         THEN {Outcome(<<Plain("windows", NoError), Plain("switch_to_window", e)>>,
                       Err(e), s) : e \in SessionErrors}
              \cup {Outcome(<<Plain("windows", NoError), Plain("switch_to_window", NoError)>>,
                            Ok(elem), [s EXCEPT !.window = command.arg.number])}
         ELSE {Outcome(<<Plain("windows", NoError)>>, Err(NoWindow), s)}

ChangeWindowArm(elem, command, s) ==
    {Outcome(<<Plain("windows", e)>>, Err(e), s) : e \in SessionErrors}
    \cup IF command.arg.number < NumWindows
         THEN {Outcome(<<Plain("windows", NoError), Plain("switch_to_window", e)>>,
                       Err(e), s) : e \in SessionErrors}
              \cup {Outcome(<<Plain("windows", NoError), Plain("switch_to_window", NoError)>>,
                            Ok(elem), [s EXCEPT !.window = command.arg.number])}
         ELSE {Outcome(<<Plain("windows", NoError)>>, Err(NoWindow), s)}

LeaveFrameArm(elem, command, s) ==
    Single("enter_parent_frame", Ok(elem), s,
           [s EXCEPT !.frames = IF @ > 0 THEN @ - 1 ELSE 0])

PrintSourceArm(elem, command, s) ==
    Single("source", Ok(elem), s, s)

WaitArm(elem, command, s) ==
    IF ~IsSome(command.selector)
    THEN {Outcome(<<>>, Err(NeedsSelector), s)}
    ELSE {Outcome(<<Call("wait_for_find", command.selector, None, e)>>, Err(e), s)
             : e \in SessionErrors}
         \cup {Outcome(<<Call("wait_for_find", command.selector, None, NoError)>>,
                       Ok(elem), s)}

\* The catch-all arm's lookup: e.find(locator) within the context element, or
\* client.find(locator) from the document root.
Lookup(elem, command, out) == Call("find", command.selector, elem, out)

\* What the catch-all arm does with the element it found.
\* Mutation: Check returns the element it found, as Recursive does.
ElementActionCheckKeepsElement(command, new_elem, s) ==
    LET t == command.command_type
        found == <<Lookup(new_elem.within, command, NoError)>>
        then(op, after) ==
            {Outcome(found \o <<Plain(op, e)>>, Err(e), s) : e \in SessionErrors}
            \cup {Outcome(found \o <<Plain(op, NoError)>>, Ok(None), a) : a \in after}
    IN  CASE t = "Clear" -> then("clear", {s})
          [] t = "EnterFrame" -> then("enter_frame", {[s EXCEPT !.frames = @ + 1]})
          [] t = "Click" -> then("click", {s})
          [] t = "Input" -> then("send_keys", {s})
          [] t = "Recursive" -> {Outcome(found, Ok(Some(new_elem)), s)}
          [] t = "Check" -> {Outcome(found, Ok(Some(new_elem)), s)}

ElementAction(command, new_elem, s) ==
    LET t == command.command_type
        found == <<Lookup(new_elem.within, command, NoError)>>
        then(op, after) ==
            {Outcome(found \o <<Plain(op, e)>>, Err(e), s) : e \in SessionErrors}
            \cup {Outcome(found \o <<Plain(op, NoError)>>, Ok(None), a) : a \in after}
    IN  CASE t = "Clear" -> then("clear", {s})
          [] t = "EnterFrame" -> then("enter_frame", {[s EXCEPT !.frames = @ + 1]})
          [] t = "Click" -> then("click", {s})
          [] t = "Input" -> then("send_keys", {s})
          [] t = "Recursive" -> {Outcome(found, Ok(Some(new_elem)), s)}
          [] t = "Check" -> {Outcome(found, Ok(None), s)}

\* Mutation: without a selector the arm looks up any element ("*").
ElementArmDefaultSelector(elem, command, s) ==
    LET c == IF IsSome(command.selector) THEN command
             ELSE [command EXCEPT !.selector = Some("*")]
    IN  {Outcome(<<Lookup(elem, c, e)>>, Err(e), s) : e \in SessionErrors}
        \cup ElementAction(c, Element(Unwrap(c.selector), elem), s)

ElementArm(elem, command, s) ==
    IF ~IsSome(command.selector)
    THEN {Outcome(<<>>, Err(NeedsSelector), s)}
    ELSE {Outcome(<<Lookup(elem, command, e)>>, Err(e), s) : e \in SessionErrors}
         \cup ElementAction(command, Element(Unwrap(command.selector), elem), s)

(* ------------------------------ the state ----------------------------- *)
VARIABLES
    commands,   \* main's `commands`: the parsed input file
    pc,         \* where main is: "spawn", "connect", "run", "kill", "exited"
    driver,     \* the geckodriver child: "none", "running", "killed"
    stack,      \* the running command lists: main's, then each active Loop's
    session,    \* the browser session behind `client`
    clicking,   \* a click-until loop's locals (new_elem, curr_url), or None
    log,        \* every call of do_command_detail so far, in order
    reported,   \* the error main printed, or None
    retries,    \* how many Loop passes have been retried
    exit,       \* main's return value once it has returned, or None
    file_contents,  \* a text of the input file's format (unread: no line)
    round_trip  \* the last conversions made between text and commands

vars ==
    <<commands, pc, driver, stack, session, clicking, log, reported, retries, exit,
      file_contents, round_trip>>

\* A running command list: `for command in commands` of main (at = 0) or of
\* the Loop step logged at log[at]; idx is the command run_command is on, d
\* how many Recursive boxes run_command's iterator has descended, elem the
\* fold's accumulator.
Frame(cmds, at) == [cmds |-> cmds, at |-> at, idx |-> 1, d |-> 0, elem |-> None]

RECURSIVE Descend(_, _)
\* The d-th command from_fn yields for `command`.
Descend(command, d) ==
    IF d = 0 THEN command ELSE Descend(Unwrap(command.child), d - 1)

\* The command the next call of do_command_detail is given.
Current(f) == Descend(f.cmds[f.idx], f.d)

\* A call of do_command_detail: where it is (the list it is in, by the log
\* index of its Loop step, the list's depth, the command's index, the depth in
\* its Recursive chain), what it was given, the requests it made, its result.
Entry(st, calls, done, res) ==
    LET f == st[Len(st)]
    IN  [loop |-> f.at, lvl |-> Len(st), idx |-> f.idx, d |-> f.d,
         command |-> Current(f), ctx |-> f.elem,
         calls |-> calls, done |-> done, res |-> res]

Finished(lg, i, res) == [lg EXCEPT ![i].done = TRUE, ![i].res = res]

Control(st, p, rep, rt, lg) ==
    [stack |-> st, pc |-> p, reported |-> rep, retries |-> rt, log |-> lg]

\* run_command's fold after a call returned Ok: TRUE when the iterator has
\* another command, the child of the Recursive just executed.
ChainContinues(command) == command.command_type = "Recursive"

\* Mutation: the next pass starts with the accumulator of the failed one.
RestartedKeepsElem(f) == [f EXCEPT !.idx = 1, !.d = 0]

\* Mutation: the next pass resumes at the command that failed.
RestartedAtFailedCommand(f) == [f EXCEPT !.d = 0, !.elem = None]

\* The Loop arm's next pass: the inner list again, from its first command.
Restarted(f) == [f EXCEPT !.idx = 1, !.d = 0, !.elem = None]

\* The error the Loop arm returns when it bails.
BailError(e) == LoopFailed

\* Mutation: main prints the error and goes on to the next command.
MainNeverBreaks(res) == FALSE

\* main's `if let Err(e) = run_command(..)`: print the error and break.
MainBreaks(res) == ~res.ok

\* The Loop arm's `if result.is_err() { break; }`.
PassBreaks(res) == ~res.ok

RECURSIVE Unwind(_, _, _, _, _)
\* Everything that follows do_command_detail returning res for the current
\* command of the top list, up to the next call of do_command_detail:
\* run_command's fold, the for loops of the Loop arm and of main, the Loop
\* arm's match on a pass's result.
Unwind(st, res, rep, rt, lg) ==
    LET n == Len(st)
        f == st[n]
        below == SubSeq(st, 1, n - 1)
        next == [st EXCEPT ![n] = [f EXCEPT !.idx = @ + 1, !.d = 0, !.elem = None]]
        printed == IF res.ok THEN rep ELSE Some(res.err)
    IN  IF res.ok /\ ChainContinues(Current(f))
        THEN Control([st EXCEPT ![n] = [f EXCEPT !.d = @ + 1, !.elem = res.elem]],
                     "run", rep, rt, lg)
        ELSE IF n = 1
        THEN IF ~MainBreaks(res) /\ f.idx < Len(f.cmds)
             THEN Control(next, "run", printed, rt, lg)
             ELSE Control(<<>>, "kill", printed, rt, lg)
        ELSE IF ~PassBreaks(res) /\ f.idx < Len(f.cmds)
        THEN Control(next, "run", rep, rt, lg)
        ELSE IF res.ok
        THEN Unwind(below, Ok(st[n - 1].elem), rep, rt,
                    Finished(lg, f.at, Ok(st[n - 1].elem)))
        ELSE IF IsFatal(res.err)
        THEN Unwind(below, Err(BailError(res.err)), rep, rt,
                    Finished(lg, f.at, Err(BailError(res.err))))
        ELSE Control([st EXCEPT ![n] = Restarted(f)], "run", rep, rt + 1, lg)

Goes(c) ==
    /\ stack' = c.stack
    /\ pc' = c.pc
    /\ reported' = c.reported
    /\ retries' = c.retries
    /\ log' = c.log

\* do_command_detail returned: log the call, then unwind.
Returns(o) ==
    /\ session' = o.session
    /\ Goes(Unwind(stack, o.res, reported, retries,
                   Append(log, Entry(stack, o.calls, TRUE, o.res))))

Top == stack[Len(stack)]

\* do_command_detail is about to be called on a command of type t.
AtCommand(T) ==
    /\ pc = "run"
    /\ stack # <<>>
    /\ clicking = None
    /\ retries <= MaxRetries
    /\ Current(Top).command_type \in T

(* -------------------------------- main --------------------------------- *)
Init ==
    /\ commands \in Scripts
    /\ pc = "spawn"
    /\ driver = "none"
    /\ stack = <<>>
    /\ session = InitSession
    /\ clicking = None
    /\ log = <<>>
    /\ reported = None
    /\ retries = 0
    /\ exit = None
    /\ file_contents = <<>>
    /\ round_trip = <<>>

\* Command::new(..).spawn()?
Spawn ==
    /\ pc = "spawn"
    /\ \/ driver' = "running" /\ pc' = "connect" /\ exit' = exit
       \/ driver' = driver /\ pc' = "exited" /\ exit' = Some("Err")
    /\ UNCHANGED <<file_contents, round_trip, commands, stack, session, clicking, log, reported, retries>>

\* Client::new(..).await?, then the first iteration of `for command in commands`.
Connect ==
    /\ pc = "connect"
    /\ \/ /\ exit' = exit
          /\ IF commands = <<>>
             THEN pc' = "kill" /\ stack' = stack
             ELSE pc' = "run" /\ stack' = <<Frame(commands, 0)>>
       \/ pc' = "exited" /\ exit' = Some("Err") /\ stack' = stack
    /\ UNCHANGED <<file_contents, round_trip, commands, driver, session, clicking, log, reported, retries>>

\* child.kill()?; Ok(())
Kill ==
    /\ pc = "kill"
    /\ driver' = "killed"
    /\ pc' = "exited"
    /\ exit' = Some("Ok")
    /\ UNCHANGED <<file_contents, round_trip, commands, stack, session, clicking, log, reported, retries>>

(* ------------------------------ the steps ------------------------------ *)
DoGoTo ==
    /\ AtCommand({"GoTo"})
    /\ \E o \in GoToArm(Top.elem, Current(Top), session) : Returns(o)
    /\ UNCHANGED <<file_contents, round_trip, commands, driver, clicking, exit>>

DoChangeWindowSize ==
    /\ AtCommand({"ChangeWindowSize"})
    /\ \E o \in ChangeWindowSizeArm(Top.elem, Current(Top), session) : Returns(o)
    /\ UNCHANGED <<file_contents, round_trip, commands, driver, clicking, exit>>

DoScrollIntoView ==
    /\ AtCommand({"ScrollIntoView"})
    /\ \E o \in ScrollIntoViewArm(Top.elem, Current(Top), session) : Returns(o)
    /\ UNCHANGED <<file_contents, round_trip, commands, driver, clicking, exit>>

DoWaitForSeconds ==
    /\ AtCommand({"WaitForSeconds"})
    /\ \E o \in WaitForSecondsArm(Top.elem, Current(Top), session) : Returns(o)
    /\ UNCHANGED <<file_contents, round_trip, commands, driver, clicking, exit>>

DoChangeWindow ==
    /\ AtCommand({"ChangeWindow"})
    /\ \E o \in ChangeWindowArm(Top.elem, Current(Top), session) : Returns(o)
    /\ UNCHANGED <<file_contents, round_trip, commands, driver, clicking, exit>>

DoLeaveFrame ==
    /\ AtCommand({"LeaveFrame"})
    /\ \E o \in LeaveFrameArm(Top.elem, Current(Top), session) : Returns(o)
    /\ UNCHANGED <<file_contents, round_trip, commands, driver, clicking, exit>>

DoPrintSource ==
    /\ AtCommand({"PrintSource"})
    /\ \E o \in PrintSourceArm(Top.elem, Current(Top), session) : Returns(o)
    /\ UNCHANGED <<file_contents, round_trip, commands, driver, clicking, exit>>

DoWait ==
    /\ AtCommand({"Wait"})
    /\ \E o \in WaitArm(Top.elem, Current(Top), session) : Returns(o)
    /\ UNCHANGED <<file_contents, round_trip, commands, driver, clicking, exit>>

DoElement ==
    /\ AtCommand(ElementTypes \ ClickUntilTypes)
    /\ \E o \in ElementArm(Top.elem, Current(Top), session) : Returns(o)
    /\ UNCHANGED <<file_contents, round_trip, commands, driver, clicking, exit>>

\* The Loop arm up to its first run_command: nothing to run in an empty list
\* (the pass is Ok at once), else the first command of the inner list.
DoLoop ==
    /\ AtCommand({"Loop"})
    /\ LET body == Current(Top).body
           at == Len(log) + 1
       IN  IF body = <<>>
           THEN Goes(Unwind(stack, Ok(Top.elem), reported, retries,
                            Append(log, Entry(stack, <<>>, TRUE, Ok(Top.elem)))))
           ELSE Goes(Control(Append(stack, Frame(body, at)), "run", reported, retries,
                             Append(log, Entry(stack, <<>>, FALSE, Ok(None)))))
    /\ UNCHANGED <<file_contents, round_trip, commands, driver, session, clicking, exit>>

\* The request a click-until loop takes its snapshots with.
SnapshotOp(command) ==
    IF command.command_type = "ClickUntilNavigation" THEN "current_url" ELSE "source"

\* The locals of a click-until loop.
Clicking(new_elem, curr_url) == [new_elem |-> new_elem, curr_url |-> curr_url]

\* The catch-all arm of a click-until command, up to its `loop`: the lookup
\* and the baseline. `locals` is None when the arm has returned.
ClickUntilEnter(elem, command, s) ==
    IF ~IsSome(command.selector)
    THEN {[out |-> Outcome(<<>>, Err(NeedsSelector), s), locals |-> None]}
    ELSE LET new_elem == Element(Unwrap(command.selector), elem)
             found == <<Lookup(elem, command, NoError)>>
         IN  {[out |-> Outcome(<<Lookup(elem, command, e)>>, Err(e), s), locals |-> None]
                 : e \in SessionErrors}
             \cup {[out |-> Outcome(found \o <<Plain(SnapshotOp(command), e)>>, Err(e), s),
                    locals |-> None] : e \in SessionErrors}
             \cup {[out |-> Outcome(found \o <<Read(SnapshotOp(command), curr_url)>>,
                                    Ok(None), s),
                    locals |-> Some(Clicking(new_elem, curr_url))] : curr_url \in Pages}

\* Where a click-until loop looks the element up again: client.find.
ReResolveScope(elem) == None

\* Mutation: the comparison is inverted.
ChangedInverted(curr_url, new_url) == curr_url = new_url

\* `if curr_url != new_url`: the loop breaks.
Changed(curr_url, new_url) == curr_url # new_url

\* Mutation: when the element cannot be found again the loop goes on with
\* the element it had.
ClickUntilIterationKeepsElement(elem, command, s, loc) ==
    LET clicked == <<Plain("click", NoError)>>
        read(new_url) == clicked \o <<Read(SnapshotOp(command), new_url)>>
        scope == ReResolveScope(elem)
        again(out) == Call("find", command.selector, scope, out)
    IN  {[out |-> Outcome(<<Plain("click", e)>>, Err(e), s), locals |-> None]
            : e \in SessionErrors}
        \cup {[out |-> Outcome(clicked \o <<Plain(SnapshotOp(command), e)>>, Err(e), s),
               locals |-> None] : e \in SessionErrors}
        \cup UNION {
            IF Changed(loc.curr_url, new_url)
            THEN {[out |-> Outcome(read(new_url), Ok(None), s), locals |-> None]}
            ELSE {[out |-> Outcome(read(new_url) \o <<again(e)>>, Ok(None), s),
                   locals |-> Some(loc)] : e \in SessionErrors}
                 \cup {[out |-> Outcome(read(new_url) \o <<again(NoError)>>, Ok(None), s),
                        locals |-> Some(Clicking(Element(Unwrap(command.selector), scope),
                                                 loc.curr_url))]}
            : new_url \in Pages}

\* One iteration of a click-until `loop`: click, snapshot, compare, and either
\* break or look the element up again. `locals` is None when the loop is left.
ClickUntilIteration(elem, command, s, loc) ==
    LET clicked == <<Plain("click", NoError)>>
        read(new_url) == clicked \o <<Read(SnapshotOp(command), new_url)>>
        scope == ReResolveScope(elem)
        again(out) == Call("find", command.selector, scope, out)
    IN  {[out |-> Outcome(<<Plain("click", e)>>, Err(e), s), locals |-> None]
            : e \in SessionErrors}
        \cup {[out |-> Outcome(clicked \o <<Plain(SnapshotOp(command), e)>>, Err(e), s),
               locals |-> None] : e \in SessionErrors}
        \cup UNION {
            IF Changed(loc.curr_url, new_url)
            THEN {[out |-> Outcome(read(new_url), Ok(None), s), locals |-> None]}
            ELSE {[out |-> Outcome(read(new_url) \o <<again(e)>>, Err(e), s),
                   locals |-> None] : e \in SessionErrors}
                 \cup {[out |-> Outcome(read(new_url) \o <<again(NoError)>>, Ok(None), s),
                        locals |-> Some(Clicking(Element(Unwrap(command.selector), scope),
                                                 loc.curr_url))]}
            : new_url \in Pages}

\* The clicks the click-until loops have made so far.
Clicks ==
    Cardinality({<<j, c>> \in (DOMAIN log) \X (1..(3 * MaxClicks + 3)) :
                    /\ log[j].command.command_type \in ClickUntilTypes
                    /\ c \in DOMAIN log[j].calls
                    /\ log[j].calls[c].op = "click"})

DoClickUntil ==
    /\ AtCommand(ClickUntilTypes)
    /\ \E r \in ClickUntilEnter(Top.elem, Current(Top), session) :
          IF r.locals = None
          THEN Returns(r.out) /\ clicking' = None
          ELSE /\ clicking' = r.locals
               /\ session' = r.out.session
               /\ log' = Append(log, Entry(stack, r.out.calls, FALSE, r.out.res))
               /\ UNCHANGED <<stack, pc, reported, retries>>
    /\ UNCHANGED <<file_contents, round_trip, commands, driver, exit>>

DoClickAgain ==
    /\ pc = "run"
    /\ clicking # None
    /\ Clicks < MaxClicks
    /\ \E r \in ClickUntilIteration(Top.elem, Current(Top), session, Unwrap(clicking)) :
          LET last == Len(log)
              lg == [log EXCEPT ![last].calls = @ \o r.out.calls]
          IN  /\ session' = r.out.session
              /\ clicking' = r.locals
              /\ IF r.locals = None
                 THEN Goes(Unwind(stack, r.out.res, reported, retries,
                                  Finished(lg, last, r.out.res)))
                 ELSE log' = lg /\ UNCHANGED <<stack, pc, reported, retries>>
    /\ UNCHANGED <<file_contents, round_trip, commands, driver, exit>>

Next ==
    \/ Spawn
    \/ Connect
    \/ Kill
    \/ DoGoTo
    \/ DoLoop
    \/ DoChangeWindowSize
    \/ DoScrollIntoView
    \/ DoWaitForSeconds
    \/ DoChangeWindow
    \/ DoLeaveFrame
    \/ DoPrintSource
    \/ DoWait
    \/ DoElement
    \/ DoClickUntil
    \/ DoClickAgain

Spec == Init /\ [][Next]_vars
(* --------------------- yaml2commands: the text -------------------------- *)
\* A scalar as it stands in the text: kind is "absent" (nothing follows the
\* colon), "plain" (unquoted: str), "quoted" (str), "int" (num), "float"
\* (num, written with a fraction), "nan" (.nan) or "empty_seq" ([]).
Scalar(kind, str, num) == [kind |-> kind, str |-> str, num |-> num]
Absent == Scalar("absent", "", 0)
PlainStr(str) == Scalar("plain", str, 0)
Quoted(str) == Scalar("quoted", str, 0)
IntScalar(n) == Scalar("int", "", n)
FloatScalar(n) == Scalar("float", "", n)
DotNan == Scalar("nan", "", 0)
EmptySeq == Scalar("empty_seq", "", 0)
\* The plain scalars that read as null.
NullWords == {"~", "null"}

\* A line of the text: `key: val` with key in column indent, after `- ` when
\* it opens an entry of a sequence.
Line(n, dash, key, val) == [indent |-> n, dash |-> dash, key |-> key, val |-> val]
\* The document start, and the whole of an empty sequence.
Header == Line(0, FALSE, "---", Absent)
EmptyDocument == Line(0, FALSE, "", EmptySeq)

\* The variants without a payload, and those whose payload is a String.
UnitTypes ==
    {"Click", "Check", "Wait", "EnterFrame", "LeaveFrame", "PrintSource",
     "ScrollIntoView", "Clear", "ClickUntilNavigation", "ClickUntilDomChanged"}
StringTypes == {"GoTo", "Input"}

\* The strings of the model that cannot stand unquoted for themselves.
QuotedStrings == {"a#link", "https://google.com", "~"}

(* ------------------- yaml2commands: serde_yaml::to_string --------------- *)
\* Mutation: no string is quoted.
NeverNeedsQuotes(str) == FALSE

\* The strings of the model that are written in quotes: those with a
\* character of YAML's syntax in them and the one that reads as null.
NeedsQuotes(str) == str \in QuotedStrings

StringScalar(str) == IF NeedsQuotes(str) THEN Quoted(str) ELSE PlainStr(str)
\* Option<String>: None is written ~.
SelectorScalar(selector) ==
    IF IsSome(selector) THEN StringScalar(Unwrap(selector)) ELSE PlainStr("~")
F64Scalar(arg) == IF arg.nan THEN DotNan ELSE FloatScalar(arg.number)

RECURSIVE SerializeCommand(_, _, _), SerializeList(_, _)
\* The lines of one WebCommand, its keys in column n; dash: it is an entry of
\* a sequence. A unit variant is written as its name, another variant as a
\* mapping of its name to its payload.
SerializeCommand(command, n, dash) ==
    LET t == command.command_type
        tagged(val) ==
            <<Line(n, FALSE, "command_type", Absent), Line(n + 2, FALSE, t, val)>>
    IN  <<Line(n, dash, "selector", SelectorScalar(command.selector))>>
        \o IF t \in UnitTypes
           THEN <<Line(n, FALSE, "command_type", PlainStr(t))>>
           ELSE IF t \in StringTypes THEN tagged(StringScalar(command.arg.text))
           ELSE IF t = "WaitForSeconds" THEN tagged(F64Scalar(command.arg))
           ELSE IF t = "ChangeWindow" THEN tagged(IntScalar(command.arg.number))
           ELSE IF t = "ChangeWindowSize"
           THEN tagged(Absent)
                \o <<Line(n + 4, FALSE, "width", IntScalar(command.arg.width)),
                      Line(n + 4, FALSE, "height", IntScalar(command.arg.height))>>
           ELSE IF t = "Recursive"
           THEN tagged(Absent) \o SerializeCommand(Unwrap(command.child), n + 4, FALSE)
           ELSE IF command.body = <<>> THEN tagged(EmptySeq)
           ELSE tagged(Absent) \o SerializeList(command.body, n + 6)

\* The entries of a sequence of WebCommands, one after the other.
SerializeList(cmds, n) ==
    IF cmds = <<>> THEN <<>>
    ELSE SerializeCommand(Head(cmds), n, TRUE) \o SerializeList(Tail(cmds), n)

\* serde_yaml::to_string(&commands)
to_string(cmds) ==
    <<Header>> \o IF cmds = <<>> THEN <<EmptyDocument>> ELSE SerializeList(cmds, 2)

(* ------------------- yaml2commands: serde_yaml::from_str ---------------- *)
\* What a deserializer returns: a value and the line after the ones it read,
\* or an error.
Parsed(value, next) == [ok |-> TRUE, value |-> value, next |-> next]
ParseError == [ok |-> FALSE, value |-> <<>>, next |-> 0]

\* String: a scalar that is text, quoted or not (an unquoted ~ is null).
DeserializeString(val) ==
    IF val.kind = "quoted" \/ (val.kind = "plain" /\ val.str \notin NullWords)
    THEN Parsed(val.str, 0)
    ELSE ParseError
\* Option<String>: null is None.
DeserializeSelector(val) ==
    IF val.kind = "plain" /\ val.str \in NullWords THEN Parsed(None, 0)
    ELSE IF val.kind \in {"plain", "quoted"} THEN Parsed(Some(val.str), 0)
    ELSE ParseError
\* f64: a number, with a fraction or without, or .nan.
DeserializeF64(val) ==
    IF val.kind \in {"int", "float"} THEN Parsed(Number(val.num), 0)
    ELSE IF val.kind = "nan" THEN Parsed(NaN, 0)
    ELSE ParseError
\* usize, u32
DeserializeUnsigned(val) ==
    IF val.kind = "int" /\ val.num >= 0 THEN Parsed(val.num, 0) ELSE ParseError

\* Line i of the text is `key: ...` in column n, not the entry of a sequence.
IsField(text, i, n, key) ==
    /\ i \in DOMAIN text
    /\ text[i].indent = n /\ ~text[i].dash /\ text[i].key = key

RECURSIVE DeserializeCommand(_, _, _, _), DeserializeList(_, _, _)
\* The WebCommand whose lines start at line i, its keys in column n.
DeserializeCommand(text, i, n, dash) ==
    IF ~(/\ i \in DOMAIN text
         /\ text[i].indent = n /\ text[i].dash = dash /\ text[i].key = "selector"
         /\ IsField(text, i + 1, n, "command_type"))
    THEN ParseError
    ELSE
    LET selector == DeserializeSelector(text[i].val)
        name == text[i + 1].val
    IN  IF ~selector.ok THEN ParseError
        ELSE IF name.kind \in {"plain", "quoted"}
        THEN IF name.str \in UnitTypes
             THEN Parsed(Leaf(name.str, selector.value), i + 2)
             ELSE ParseError
        ELSE IF ~(name.kind = "absent" /\ i + 2 \in DOMAIN text
                  /\ text[i + 2].indent = n + 2 /\ ~text[i + 2].dash)
        THEN ParseError
        ELSE
        LET t == text[i + 2].key
            val == text[i + 2].val
            with(arg) ==
                IF arg.ok
                THEN Parsed(WebCommand(t, selector.value, arg.value, None, <<>>), i + 3)
                ELSE ParseError
        IN  IF t \in StringTypes
            THEN LET str == DeserializeString(val)
                 IN  with([str EXCEPT !.value = Text(str.value)])
            ELSE IF t = "WaitForSeconds" THEN with(DeserializeF64(val))
            ELSE IF t = "ChangeWindow"
            THEN LET index == DeserializeUnsigned(val)
                 IN  with([index EXCEPT !.value = Number(index.value)])
            ELSE IF t = "ChangeWindowSize"
            THEN IF /\ val.kind = "absent"
                    /\ IsField(text, i + 3, n + 4, "width")
                    /\ IsField(text, i + 4, n + 4, "height")
                    /\ DeserializeUnsigned(text[i + 3].val).ok
                    /\ DeserializeUnsigned(text[i + 4].val).ok
                 THEN Parsed(WebCommand(t, selector.value,
                                        Size(text[i + 3].val.num, text[i + 4].val.num),
                                        None, <<>>), i + 5)
                 ELSE ParseError
            ELSE IF t = "Recursive"
            THEN LET child == DeserializeCommand(text, i + 3, n + 4, FALSE)
                 IN  IF val.kind = "absent" /\ child.ok
                     THEN Parsed(WebCommand(t, selector.value, NoPayload,
                                            Some(child.value), <<>>), child.next)
                     ELSE ParseError
            ELSE IF t = "Loop"
            THEN IF val.kind = "empty_seq"
                 THEN Parsed(WebCommand(t, selector.value, NoPayload, None, <<>>), i + 3)
                 ELSE LET body == DeserializeList(text, i + 3, n + 6)
                      IN  IF val.kind = "absent" /\ body.ok /\ body.value # <<>>
                          THEN Parsed(WebCommand(t, selector.value, NoPayload, None,
                                                 body.value), body.next)
                          ELSE ParseError
            ELSE ParseError

\* The entries of the sequence whose first entry starts at line i, their
\* keys in column n, up to the end of the text or a line further left.
DeserializeList(text, i, n) ==
    IF i \notin DOMAIN text \/ text[i].indent < n
    THEN Parsed(<<>>, i)
    ELSE LET command == DeserializeCommand(text, i, n, TRUE)
             rest == DeserializeList(text, command.next, n)
         IN  IF command.ok /\ rest.ok
             THEN Parsed(<<command.value>> \o rest.value, rest.next)
             ELSE ParseError

\* serde_yaml::from_str::<Vec<WebCommand>>(text)
from_str(text) ==
    IF Len(text) < 2 \/ text[1] # Header THEN ParseError
    ELSE IF text = <<Header, EmptyDocument>> THEN Parsed(<<>>, 3)
    ELSE LET cmds == DeserializeList(text, 2, 2)
         IN  IF cmds.ok /\ cmds.next = Len(text) + 1 THEN cmds ELSE ParseError

(* ------------------- yaml2commands: #[derive(PartialEq)] ---------------- *)
\* f64's ==: NaN equals nothing.
F64Eq(a, b) == ~a.nan /\ ~b.nan /\ a.number = b.number

RECURSIVE PartialEq(_, _), ListEq(_, _)
\* WebCommand's ==: the selectors and the variants are equal, and so are the
\* variants' payloads.
PartialEq(a, b) ==
    /\ a.selector = b.selector
    /\ a.command_type = b.command_type
    /\ LET t == a.command_type
       IN  IF t \in StringTypes THEN a.arg.text = b.arg.text
           ELSE IF t = "WaitForSeconds" THEN F64Eq(a.arg, b.arg)
           ELSE IF t = "ChangeWindow" THEN a.arg.number = b.arg.number
           ELSE IF t = "ChangeWindowSize"
           THEN a.arg.width = b.arg.width /\ a.arg.height = b.arg.height
           ELSE IF t = "Recursive" THEN PartialEq(Unwrap(a.child), Unwrap(b.child))
           ELSE IF t = "Loop" THEN ListEq(a.body, b.body)
           ELSE TRUE
\* Vec<WebCommand>'s ==
ListEq(x, y) ==
    /\ Len(x) = Len(y)
    /\ \A i \in DOMAIN x : PartialEq(x[i], y[i])

(* ------------------- yaml2commands: the conversions --------------------- *)
YamlSelectors == {None, Some("div"), Some("a#link")}
\* Every variant without a nested command, with each selector and with the
\* payloads of the crate's tests, a string that reads as null and a NaN.
YamlLeaves ==
    {Leaf(t, s) : t \in UnitTypes, s \in YamlSelectors}
    \cup {WebCommand(t, s, Text(str), None, <<>>) :
             t \in StringTypes, s \in YamlSelectors,
             str \in {"input text", "https://google.com", "~"}}
    \cup {WebCommand("WaitForSeconds", s, sec, None, <<>>) :
             s \in YamlSelectors, sec \in {Number(1), NaN}}
    \cup {WebCommand("ChangeWindow", s, Number(1), None, <<>>) : s \in YamlSelectors}
    \cup {WebCommand("ChangeWindowSize", s, Size(800, 600), None, <<>>) :
             s \in YamlSelectors}
\* The leaves of the nested lists.
YamlCore ==
    {Leaf("Click", Some("a#link")),
     WebCommand("Input", Some("div"), Text("~"), None, <<>>),
     WebCommand("WaitForSeconds", None, Number(1), None, <<>>)}

RECURSIVE YamlChains(_)
\* Recursive(..Recursive(leaf)) with exactly d Recursive nodes.
YamlChains(d) ==
    IF d = 0 THEN YamlLeaves
    ELSE {Recursive(s, c) : s \in ParentSelectors, c \in YamlChains(d - 1)}

\* The command lists converted: every leaf, every chain, the nested lists.
YamlLists ==
    UNION {{<<c>> : c \in YamlChains(d)} : d \in 0..MaxChain}
    \cup UNION {ListsOfSize(YamlCore, n) : n \in 0..MaxNodes}

\* The forms a text of an input file comes in: as to_string writes it, with
\* every string in quotes, with null spelled out, and cut short of its last
\* line.
Styles == {"serde", "quoted", "null", "cut"}
Styled(text, style) ==
    IF style = "cut" THEN SubSeq(text, 1, Len(text) - 1)
    ELSE [i \in DOMAIN text |->
            LET val == text[i].val
            IN  IF style = "quoted" /\ val.kind = "plain" /\ val.str \notin NullWords
                THEN [text[i] EXCEPT !.val = Quoted(val.str)]
                ELSE IF style = "null" /\ val.kind = "plain" /\ val.str \in NullWords
                THEN [text[i] EXCEPT !.val = PlainStr("null")]
                ELSE text[i]]

\* One conversion: its text, its command list, whether it returned Ok.
Trip(op, text, value, ok) == [op |-> op, text |-> text, value |-> value, ok |-> ok]
\* The last three conversions.
Keep(trips, trip) ==
    IF Len(trips) < 3 THEN Append(trips, trip) ELSE Append(Tail(trips), trip)

\* A command list and a text of it, before any conversion.
InitYaml ==
    /\ commands \in YamlLists
    /\ file_contents \in {Styled(to_string(commands), style) : style \in Styles}
    /\ round_trip = <<>>
    /\ pc = "yaml"
    /\ driver = "none"
    /\ stack = <<>>
    /\ session = InitSession
    /\ clicking = None
    /\ log = <<>>
    /\ reported = None
    /\ retries = 0
    /\ exit = None

\* to_string(&commands)
Serialize ==
    /\ pc = "yaml"
    /\ file_contents' = to_string(commands)
    /\ round_trip' = Keep(round_trip, Trip("to_string", file_contents', commands, TRUE))
    /\ UNCHANGED <<commands, pc, driver, stack, session, clicking, log, reported,
                   retries, exit>>

\* from_str::<Vec<WebCommand>>(&file_contents)
Deserialize ==
    /\ pc = "yaml"
    /\ LET cmds == from_str(file_contents)
       IN  IF cmds.ok
           THEN /\ commands' = cmds.value
                /\ round_trip' =
                       Keep(round_trip, Trip("from_str", file_contents, cmds.value, TRUE))
           ELSE /\ commands' = commands
                /\ round_trip' =
                       Keep(round_trip, Trip("from_str", file_contents, <<>>, FALSE))
    /\ UNCHANGED <<file_contents, pc, driver, stack, session, clicking, log, reported,
                   retries, exit>>

NextYaml ==
    \/ Serialize
    \/ Deserialize

SpecYaml == InitYaml /\ [][NextYaml]_vars

(* ------------------------- reading the log ----------------------------- *)
Steps == DOMAIN log
Type(j) == log[j].command.command_type
Failed(j) == log[j].done /\ ~log[j].res.ok
Succeeded(j) == log[j].done /\ log[j].res.ok
\* The calls made on the commands of the inner list of the Loop step log[a],
\* in this activation of it.
Inner(a) == {j \in Steps : log[j].loop = a}
\* The requests of step j that are lookups of an element.
Finds(j) == {c \in DOMAIN log[j].calls : log[j].calls[c].op = "find"}
SessionFatal(e) == e \in {Standard("NoSuchWindow"), Standard("InvalidSessionId")}
Stopped == pc \in {"kill", "exited"} /\ stack = <<>>

(* -------------------------------- C1 ----------------------------------- *)
\* C1: a step directly in a Loop's inner list that fails with NoSuchWindow or
\* InvalidSessionId ends that Loop step with an error in the same pass: it is
\* the last step the Loop step ever runs (no retry, no later inner step).
C1_FatalEndsLoop ==
    \A j \in Steps :
        (Failed(j) /\ SessionFatal(log[j].res.err) /\ log[j].loop > 0) =>
            LET a == log[j].loop
            IN  /\ Failed(a)
                /\ \A i \in Inner(a) : i <= j

\* A two-command inner list whose first command failed fatally.
C1_Witness ==
    \E j \in Steps :
        /\ Failed(j) /\ SessionFatal(log[j].res.err) /\ log[j].loop > 0
        /\ log[j].idx = 1
        /\ Len(log[log[j].loop].command.body) = 2

(* -------------------------------- C2 ----------------------------------- *)
\* C2: a NoSuchWindow or InvalidSessionId failure of a step inside a Loop that
\* is itself inside a Loop stops the whole run at once: no enclosing Loop
\* starts its inner list again and nothing runs after the failed step.
C2_FatalAtEveryDepth ==
    \A j \in Steps :
        (Failed(j) /\ SessionFatal(log[j].res.err) /\ log[j].lvl >= 3) =>
            /\ Stopped
            /\ j = Len(log)

(* -------------------------------- C3 ----------------------------------- *)
\* C3: a step that fails for want of a selector is never retried: the run
\* stops with that error and nothing runs after the step, inside a Loop too.
C3_MissingSelectorStopsRun ==
    \A j \in Steps :
        (Failed(j) /\ log[j].res.err = NeedsSelector) =>
            /\ Stopped
            /\ reported = Some(NeedsSelector)
            /\ j = Len(log)

(* -------------------------------- C4 ----------------------------------- *)
\* How often the inner list of Loop step a was started: the calls on its
\* first command (the head of its Recursive chain).
Starts(a) == Cardinality({j \in Inner(a) : log[j].idx = 1 /\ log[j].d = 0})
\* The passes of Loop step a that failed: run_command's fold stops at the
\* first failed call, so each failed call is one failed pass.
FailedPasses(a) == Cardinality({j \in Inner(a) : Failed(j)})

\* C4: a Loop step (with a command to run) that returns success started its
\* inner list exactly once more than passes of it failed, none of them with a
\* fatal error, and its last pass ran the list to its end without a failure.
C4_RetriesUntilSuccess ==
    \A a \in Steps :
        (Type(a) = "Loop" /\ Succeeded(a) /\ log[a].command.body # <<>>) =>
            /\ Starts(a) = FailedPasses(a) + 1
            /\ \A j \in Inner(a) : Failed(j) => ~SessionFatal(log[j].res.err)
            /\ \E j \in Inner(a) :
                  /\ Succeeded(j)
                  /\ log[j].idx = Len(log[a].command.body)
                  /\ \A i \in Inner(a) : i <= j

\* A Loop step that succeeded on its third pass.
C4_Witness ==
    \E a \in Steps :
        /\ Type(a) = "Loop" /\ Succeeded(a)
        /\ FailedPasses(a) = 2
        /\ Starts(a) = 3

(* -------------------------------- C5 ----------------------------------- *)
\* C5: once a call on a command of the top-level list has failed, the run has
\* stopped with that error printed, no later top-level command was started,
\* and no top-level call was made twice.
C5_FailFast ==
    \A j \in Steps :
        (Failed(j) /\ log[j].lvl = 1) =>
            /\ Stopped
            /\ reported = Some(log[j].res.err)
            /\ \A i \in Steps : log[i].lvl = 1 => (log[i].idx <= log[j].idx /\ i <= j)
            /\ \A i1, i2 \in Steps :
                  (i1 < i2 /\ log[i1].lvl = 1 /\ log[i2].lvl = 1) =>
                      \/ log[i1].idx < log[i2].idx
                      \/ log[i1].idx = log[i2].idx /\ log[i1].d < log[i2].d

\* The second of three top-level commands failed.
C5_Witness ==
    \E j \in Steps :
        /\ Failed(j) /\ log[j].lvl = 1
        /\ log[j].idx = 2
        /\ Len(commands) = 3

(* -------------------------------- C6 ----------------------------------- *)
\* C6: when main has returned and the driver had been spawned, the driver
\* has been killed.
C6_DriverKilled ==
    (pc = "exited" /\ driver # "none") => driver = "killed"

(* -------------------------------- C7 ----------------------------------- *)
\* The call on the Recursive command whose child step j is.
IsChildOf(j, p) ==
    /\ p = j - 1
    /\ p \in Steps
    /\ Type(p) = "Recursive"
    /\ Succeeded(p)
    /\ log[p].lvl = log[j].lvl /\ log[p].loop = log[j].loop
    /\ log[p].idx = log[j].idx /\ log[p].d + 1 = log[j].d

\* C7: every lookup an element-needing child of a Recursive command makes
\* searches within the element that Recursive command found.
C7_ChildSearchesWithinParent ==
    \A j \in Steps :
        (log[j].d >= 1 /\ Type(j) \in ElementTypes) =>
            /\ IsChildOf(j, j - 1)
            /\ \A c \in Finds(j) :
                  /\ IsSome(log[j].calls[c].within)
                  /\ log[j].calls[c].within = log[j - 1].res.elem
(* -------------------------------- C8 ----------------------------------- *)
\* The requests of step j, by kind.
Ops(j, op) == {c \in DOMAIN log[j].calls : log[j].calls[c].op = op}
Snapshots(j) == Ops(j, SnapshotOp(log[j].command))
\* The baseline of click-until step j: its first snapshot.
Baseline(j) == log[j].calls[2].value
\* The snapshots of step j taken after a click that equal the baseline.
Unchanged(j) == {c \in Snapshots(j) : c > 2 /\ log[j].calls[c].value = Baseline(j)}

\* C8: a click-until step that returned success took its baseline once, right
\* after the lookup and before any click; every snapshot after that follows a
\* click; a snapshot equal to the baseline is followed by a lookup and a
\* click, a different one by nothing; so it clicked 1 + (unchanged snapshots)
\* times and looked the element up as often.
C8_ClickUntilCounts ==
    \A j \in Steps :
        (Type(j) \in ClickUntilTypes /\ Succeeded(j)) =>
            LET calls == log[j].calls
                n == Len(calls)
            IN  /\ calls[1].op = "find"
                /\ 2 \in Snapshots(j)
                /\ \A c \in Ops(j, "click") : c > 2
                /\ \A c \in Snapshots(j) : c > 2 => calls[c - 1].op = "click"
                /\ \A c \in Ops(j, "click") : c + 1 \in Snapshots(j)
                /\ \A c \in Unchanged(j) :
                      /\ c + 2 <= n
                      /\ calls[c + 1].op = "find"
                      /\ calls[c + 2].op = "click"
                /\ \A c \in Snapshots(j) \ Unchanged(j) : c > 2 => c = n
                /\ Cardinality(Ops(j, "click")) = 1 + Cardinality(Unchanged(j))
                /\ Cardinality(Finds(j)) = 1 + Cardinality(Unchanged(j))
                /\ Cardinality(Snapshots(j)) = 1 + Cardinality(Ops(j, "click"))

\* A ClickUntilNavigation step that clicked twice: once in vain, as the
\* child of a Recursive command.
C8_Witness ==
    \E j \in Steps :
        /\ Type(j) = "ClickUntilNavigation"
        /\ Succeeded(j)
        /\ IsSome(log[j].ctx)
        /\ Cardinality(Unchanged(j)) = 1
        /\ Cardinality(Ops(j, "click")) = 2

(* -------------------------------- C9 ----------------------------------- *)
TimedOut(j) ==
    /\ Type(j) = "WaitForSeconds"
    /\ IsSome(log[j].command.selector)
    /\ Failed(j)
    /\ log[j].res.err = Elapsed

\* The inner list of Loop step a was started again right after step j.
RunAgainAfter(a, j) ==
    IF j = Len(log)
    THEN /\ pc = "run"
         /\ stack # <<>>
         /\ Top.at = a /\ Top.idx = 1 /\ Top.d = 0 /\ Top.elem = None
    ELSE /\ log[j + 1].loop = a /\ log[j + 1].idx = 1 /\ log[j + 1].d = 0
         /\ log[j + 1].ctx = None

Lookups(j) ==
    {c \in DOMAIN log[j].calls : log[j].calls[c].op \in {"find", "wait_for_find"}}

Latest(S) == CHOOSE j \in S : \A i \in S : i <= j
\* The calls of the last pass of Loop step a: those from the last call on
\* the first command of its inner list on.
LastPass(a) ==
    LET start == Latest({j \in Inner(a) : log[j].idx = 1 /\ log[j].d = 0})
    IN  {j \in Inner(a) : j >= start}
\* The last call Loop step a made on a command of its inner list.
LastInner(a) == Latest(Inner(a))

\* C11: a Loop step that has returned either returned success, with the
\* context it was given, every call of its last pass having succeeded and the
\* pass having run the inner list to its end, or returned an error, the last
\* call of its last pass having failed with NoSuchWindow or InvalidSessionId;
\* and the error a Loop step returns is never the error of an inner command
\* that is not session-fatal.
C11_LoopEndsOnlyTwoWays ==
    \A a \in Steps :
        (Type(a) = "Loop" /\ log[a].done) =>
            LET last == LastInner(a)
            IN  IF log[a].res.ok
                THEN /\ log[a].res.elem = log[a].ctx
                     /\ log[a].command.body # <<>> =>
                            /\ \A j \in LastPass(a) : Succeeded(j)
                            /\ log[last].idx = Len(log[a].command.body)
                            /\ Type(last) # "Recursive"
                ELSE /\ Inner(a) # {}
                     /\ Failed(last)
                     /\ SessionFatal(log[last].res.err)
                     /\ \A j \in Inner(a) :
                           Failed(j) => (j = last \/ ~SessionFatal(log[j].res.err))

\* A Loop step that returned an error on its third pass, after two passes
\* that failed with errors it retried.
C11_Witness ==
    \E a \in Steps :
        /\ Type(a) = "Loop" /\ Failed(a)
        /\ FailedPasses(a) = 3
        /\ Starts(a) = 3

(* -------------------------------- C13 ---------------------------------- *)
\* The call of do_command_detail the step just taken has logged.
Logged == log'[Len(log')]

\* C13: when do_command_detail is called on a command of the catch-all arm
\* (Clear, EnterFrame, Click, ClickUntilNavigation, ClickUntilDomChanged,
\* Input, Recursive, Check) that has no selector, the call returns the
\* missing-selector error, has made no request to the session, and leaves the
\* session and the locals of the click-until loops as they were.
C13_NoSelectorNoRequest ==
    [][(AtCommand(ElementTypes) /\ ~IsSome(Current(Top).selector)) =>
          /\ Len(log') = Len(log) + 1
          /\ Logged.command = Current(Top)
          /\ Logged.done
          /\ Logged.res = Err(NeedsSelector)
          /\ Logged.calls = <<>>
          /\ session' = session
          /\ clicking' = None]_vars

\* A click-until command without a selector failed as the child of a
\* Recursive command.
C13_Witness ==
    \E j \in Steps :
        /\ Type(j) \in ClickUntilTypes
        /\ ~IsSome(log[j].command.selector)
        /\ Failed(j) /\ log[j].res.err = NeedsSelector
        /\ IsSome(log[j].ctx)

(* -------------------------------- C14 ---------------------------------- *)
\* C14: a call that returned success returned the context it was given when
\* its command is of a kind handled before the catch-all arm (GoTo, Loop,
\* ChangeWindowSize, ScrollIntoView, WaitForSeconds, ChangeWindow,
\* LeaveFrame, PrintSource, Wait), the element it looked up (its selector,
\* searched within the context it was given) when the command is Recursive,
\* and no context when it is of another kind of the catch-all arm.
C14_ContextByKind ==
    \A j \in Steps :
        Succeeded(j) =>
            IF Type(j) \in NoElementTypes
            THEN log[j].res.elem = log[j].ctx
            ELSE IF Type(j) = "Recursive"
            THEN log[j].res.elem =
                     Some(Element(Unwrap(log[j].command.selector), log[j].ctx))
            ELSE log[j].res.elem = None

\* A Loop returned success as the child of a Recursive command, after a
\* command with a selector ran and succeeded in it.
C14_Witness ==
    \E a, j \in Steps :
        /\ Type(a) = "Loop" /\ Succeeded(a)
        /\ IsSome(log[a].ctx)
        /\ log[j].loop = a
        /\ Type(j) \in {"Check", "WaitForSeconds"} /\ Succeeded(j)
        /\ IsSome(log[j].command.selector)

(* -------------------------------- C15 ---------------------------------- *)
\* C15: a call was given a context only as the call on the child of a
\* Recursive command, right after the call on that Recursive command
\* succeeded, and the context is the element that call returned; the call on
\* a command that is an entry of main's list or of a Loop's inner list (not a
\* child in a Recursive chain) was given no context, on every pass; and the
\* list the model is about to run an entry of holds no context.
C15_ContextOnlyFromRecursive ==
    /\ \A j \in Steps :
          /\ IsSome(log[j].ctx) =>
                /\ log[j].d >= 1
                /\ IsChildOf(j, j - 1)
                /\ log[j].ctx = log[j - 1].res.elem
          /\ log[j].d = 0 => log[j].ctx = None
    /\ \A n \in DOMAIN stack : stack[n].d = 0 => stack[n].elem = None

\* A Loop that was given a context started its inner list again after a
\* call on a command of it failed.
C15_Witness ==
    \E a, i, j \in Steps :
        /\ Type(a) = "Loop" /\ IsSome(log[a].ctx)
        /\ log[i].loop = a /\ log[j].loop = a
        /\ i < j
        /\ Failed(i)
        /\ log[j].idx = 1 /\ log[j].d = 0

(* -------------------------------- C16 ---------------------------------- *)
\* Call j is the call Loop step a made right after call i.
Follows(a, i, j) ==
    /\ i \in Inner(a) /\ j \in Inner(a)
    /\ i < j
    /\ \A k \in Inner(a) : k <= i \/ k >= j

\* The session after request c of call e was answered.
Answered(s, e, c) ==
    LET r == e.calls[c]
    IN  IF r.out # NoError THEN s
        ELSE IF r.op = "enter_frame" THEN [s EXCEPT !.frames = @ + 1]
        ELSE IF r.op = "enter_parent_frame"
        THEN [s EXCEPT !.frames = IF @ > 0 THEN @ - 1 ELSE 0]
        ELSE IF r.op = "switch_to_window" THEN [s EXCEPT !.window = e.command.arg.number]
        ELSE s

RECURSIVE AfterRequests(_, _, _)
\* The session s after the first c requests of call e.
AfterRequests(s, e, c) ==
    IF c = 0 THEN s ELSE Answered(AfterRequests(s, e, c - 1), e, c)

RECURSIVE Replayed(_)
\* The session after every request of the first j calls, none taken back.
Replayed(j) ==
    IF j = 0 THEN InitSession
    ELSE AfterRequests(Replayed(j - 1), log[j], Len(log[j].calls))

\* C16: the first call a Loop step makes is on the first command of its
\* inner list; after a call that failed, its next call is on the first
\* command again (so the commands after the failed one were not run in that
\* pass and the ones before it are run once more); after a call that
\* succeeded, its next call is on the child of that command if it is
\* Recursive and on the next command of the list if not; and the session is
\* the one every request made so far, those of the failed passes included,
\* has left.
C16_RetryRestartsAtFirstStep ==
    /\ \A j \in Steps :
          log[j].loop > 0 =>
              LET before == {i \in 1..(j - 1) : log[i].loop = log[j].loop}
                  i == Latest(before)
              IN  IF before = {}
                  THEN log[j].idx = 1 /\ log[j].d = 0
                  ELSE /\ log[i].done
                       /\ IF Failed(i)
                          THEN log[j].idx = 1 /\ log[j].d = 0
                          ELSE IF Type(i) = "Recursive"
                          THEN log[j].idx = log[i].idx /\ log[j].d = log[i].d + 1
                          ELSE log[j].idx = log[i].idx + 1 /\ log[j].d = 0
    /\ session = Replayed(Len(log))

\* A Loop whose first command enters a frame and whose second command failed
\* has entered the frame again in its second pass: two frames deep.
C16_Witness ==
    \E a, i, j, k \in Steps :
        /\ Type(a) = "Loop"
        /\ Follows(a, i, j) /\ Follows(a, j, k)
        /\ Type(i) = "EnterFrame" /\ Succeeded(i) /\ log[i].idx = 1
        /\ Failed(j) /\ log[j].idx = 2
        /\ Type(k) = "EnterFrame" /\ Succeeded(k) /\ log[k].idx = 1
        /\ session.frames = 2

(* -------------------------------- C17 ---------------------------------- *)
\* C17: every lookup a click-until command makes when it was given a context
\* (the first one and each one after an unchanged snapshot) searches the
\* command's selector within that context.
C17_ReResolvesWithinContext ==
    \A j \in Steps :
        (Type(j) \in ClickUntilTypes /\ IsSome(log[j].ctx)) =>
            \A c \in Finds(j) :
                /\ log[j].calls[c].selector = log[j].command.selector
                /\ log[j].calls[c].within = log[j].calls[1].within
                /\ log[j].calls[c].within = log[j].ctx

(* -------------------------------- C18 ---------------------------------- *)
\* C18: a request of a click-until command that was answered with an error
\* (the lookup, the baseline, a click, a snapshot or a lookup after an
\* unchanged snapshot) is the last request of that call, and the call has
\* returned that error.
C18_ClickUntilErrorEndsStep ==
    \A j \in Steps :
        Type(j) \in ClickUntilTypes =>
            \A c \in DOMAIN log[j].calls :
                log[j].calls[c].out # NoError =>
                    /\ c = Len(log[j].calls)
                    /\ log[j].done
                    /\ log[j].res = Err(log[j].calls[c].out)

\* A click-until command failed on the lookup after an unchanged snapshot,
\* its fifth request.
C18_Witness ==
    \E j \in Steps :
        /\ Type(j) \in ClickUntilTypes
        /\ Failed(j)
        /\ Len(log[j].calls) = 5
        /\ log[j].calls[5].op = "find"
        /\ log[j].calls[5].out # NoError

(* -------------------------------- C19 ---------------------------------- *)
\* What the log tells of the ChangeWindow calls: one whose index is in the
\* window list and that returned success asked for the list and switched; one
\* whose index is not in the list failed and asked for no switch, and when the
\* list was answered it failed with `Couldn't find the window`, after which
\* the run stopped with that error printed (the command is in main's list)
\* or the Loop whose inner list it is in started that list again.
ChangeWindowLogged ==
    \A j \in Steps :
        (Type(j) = "ChangeWindow" /\ log[j].done) =>
            LET calls == log[j].calls
                i == log[j].command.arg.number
            IN  IF i < NumWindows
                THEN Succeeded(j) =>
                        calls = <<Plain("windows", NoError),
                                  Plain("switch_to_window", NoError)>>
                ELSE /\ Failed(j)
                     /\ Ops(j, "switch_to_window") = {}
                     /\ Len(calls) = 1 /\ calls[1].op = "windows"
                     /\ calls[1].out # NoError => log[j].res.err = calls[1].out
                     /\ calls[1].out = NoError =>
                            /\ log[j].res.err = NoWindow
                            /\ IF log[j].lvl = 1
                               THEN Stopped /\ reported = Some(NoWindow) /\ j = Len(log)
                               ELSE RunAgainAfter(log[j].loop, j)

\* What a ChangeWindow call does to the session: the active window is the one
\* at the command's index when the call returns success, and the session is
\* left as it was when the call fails.
ChangeWindowStep ==
    AtCommand({"ChangeWindow"}) =>
        /\ Len(log') = Len(log) + 1
        /\ Logged.command = Current(Top)
        /\ IF Logged.res.ok
           THEN session' = [session EXCEPT !.window = Current(Top).arg.number]
           ELSE session' = session

\* C19: ChangeWindow(i) with i an index of the window list makes window i the
\* active one (when the session answers its two requests); with i outside the
\* list it fails and leaves the active window as it was, and the failure is
\* retried inside a Loop and stops the run outside.
C19_ChangeWindowByIndex ==
    []ChangeWindowLogged /\ [][ChangeWindowStep]_vars

\* In a Loop, a ChangeWindow with the last index of the list switched the
\* window, the ChangeWindow after it, its index outside the list, failed,
\* and the Loop has started its inner list again.
C19_Witness ==
    \E a, i, j \in Steps :
        /\ Type(a) = "Loop"
        /\ Follows(a, i, j) /\ j < Len(log)
        /\ Type(i) = "ChangeWindow" /\ Succeeded(i)
        /\ log[i].command.arg.number = NumWindows - 1
        /\ Type(j) = "ChangeWindow" /\ Failed(j)
        /\ log[j].command.arg.number = NumWindows
        /\ log[j].res.err = NoWindow
        /\ session.window = NumWindows - 1

(* -------------------------------- C12 ---------------------------------- *)
\* Conversion i + 1 was made on what conversion i returned.
ThenParsed(i) ==
    /\ round_trip[i].op = "to_string"
    /\ round_trip[i + 1].op = "from_str"
ThenSerialized(i) ==
    /\ round_trip[i].op = "from_str" /\ round_trip[i].ok
    /\ round_trip[i + 1].op = "to_string"
Pairs == {i \in DOMAIN round_trip : i + 1 \in DOMAIN round_trip}

\* C12 as stated: from_str of the text to_string wrote returns a command list
\* equal (==) to the one written, and to_string of the command list from_str
\* returned writes the text that was parsed.
C12_RoundTripLossless ==
    \A i \in Pairs :
        /\ ThenParsed(i) =>
              /\ round_trip[i + 1].ok
              /\ ListEq(round_trip[i + 1].value, round_trip[i].value)
        /\ ThenSerialized(i) => round_trip[i + 1].text = round_trip[i].text

\* The text is in the form to_string writes: a string is in quotes when and
\* only when it cannot stand unquoted, and null is written ~.
Canonical(text) ==
    \A i \in DOMAIN text :
        LET val == text[i].val
        IN  /\ val.kind = "quoted" => val.str \in QuotedStrings
            /\ val.kind = "plain" =>
                  \/ val.str = "~"
                  \/ val.str \notin QuotedStrings \cup NullWords

\* C12 amended: from_str of the text to_string wrote returns the command
\* list that was written, field for field, which is equal (==) to it unless
\* it holds a NaN (then it is not equal to itself either); and to_string of
\* the command list from_str returned writes the text that was parsed when
\* that text is in the form to_string writes.
C12_RoundTripOfSerializedForm ==
    \A i \in Pairs :
        /\ ThenParsed(i) =>
              /\ round_trip[i + 1].ok
              /\ round_trip[i + 1].value = round_trip[i].value
              /\ ListEq(round_trip[i + 1].value, round_trip[i].value)
                    <=> ListEq(round_trip[i].value, round_trip[i].value)
        /\ (ThenSerialized(i) /\ Canonical(round_trip[i].text)) =>
              round_trip[i + 1].text = round_trip[i].text

\* A Recursive command two deep, with a string that is written in quotes at
\* the bottom, was written, parsed and written again, from a text with
\* every string in quotes.
C12_Witness ==
    /\ Len(round_trip) = 3
    /\ ThenParsed(1) /\ ThenSerialized(2)
    /\ Len(commands) = 1
    /\ commands[1].command_type = "Recursive"
    /\ Unwrap(commands[1].child).command_type = "Recursive"
    /\ Unwrap(Unwrap(commands[1].child).child).command_type = "Input"
    /\ Unwrap(Unwrap(commands[1].child).child).arg.text = "~"
    /\ ListEq(round_trip[2].value, round_trip[1].value)
    /\ round_trip[3].text = round_trip[2].text
====
